---- MODULE Spec2Model ----
(***************************************************************************)
(* A model of nmeilick/go-sar: the size-limiting writer (limit.go), the    *)
(* archive handle with its create pipeline (create.go) and the extract     *)
(* pipeline (extract.go) with the two platform adapters.                   *)
(***************************************************************************)
EXTENDS Integers, Sequences, FiniteSets, TLC

\* ------------------------------------------------------------------ bounds
MaxLimit == 3
MaxBuf == 3
MaxCalls == 3
MaxOps == 3

\* ------------------------------------------------------------------ state
VARIABLES
  lw,        \* the LimitWriter: [Limit, written]
  sink,      \* the wrapped sink: [bytes accepted, Write calls received]
  ret,       \* the last call and what it returned
  a,         \* the Archive handle
  layers,    \* every layer object constructed so far: [kind, closes]
  tw,        \* the state of the handle's tar.Writer
  archive,   \* the entries of the archive stream
  reads,     \* the number of reads made on the source
  fs,        \* the filesystem: absolute path |-> object
  ap,        \* the ArchivePath call in progress
  ops,       \* the number of calls made on the handle
  tr,        \* the state of the handle's tar.Reader: [n decoded, sticky err]
  opts,      \* the ExtractOptions the caller passes to Extract
  x,         \* the Extract call in progress
  platform,  \* the adapter the program was built with: "posix" or "windows"
  feed,      \* what a reader is given: "none", "archive" (the stream written) or "any"
  touched    \* every filesystem location Extract has changed

vars == <<lw, sink, ret, a, layers, tw, archive, reads, fs, ap, ops, tr, opts, x, platform, feed, touched>>

xvars == <<tr, opts, x, platform, feed, touched>>

NoRet == [op |-> "none", kind |-> "", len |-> 0, before |-> 0, n |-> 0, err |-> "nil", cause |-> "nil", errlist |-> <<>>, text |-> <<>>, order |-> <<>>]

\* ------------------------------------------------- limit.go: LimitWriter

\* NewLimitWriter(w, limit): written starts at 0.
NewLimitWriter(limit) == [Limit |-> limit, written |-> 0]

\* The outcomes of one Write(p) on the wrapped sink, len(p) = len: the sink
\* accepts n <= len bytes and reports an error whenever n < len (io.Writer).
SinkOutcomes(len) ==
  { [n |-> n, err |-> e] : n \in 0..len, e \in {"nil", "io"} } \ { [n |-> n, err |-> "nil"] : n \in 0..(len - 1) }

\* A plausible slip: the check forgets the length of the buffer.
LimitWriterWrite_NoLen(w, len, out) ==
  IF w.written > w.Limit
    THEN [w |-> w, n |-> 0, err |-> "WriteLimitExceeded", delegated |-> FALSE]
    ELSE [w |-> [w EXCEPT !.written = @ + out.n], n |-> out.n, err |-> out.err, delegated |-> TRUE]

\* A plausible slip: the count advances by len(p), not by what was accepted.
LimitWriterWrite_CountLen(w, len, out) ==
  IF w.written + len > w.Limit
    THEN [w |-> w, n |-> 0, err |-> "WriteLimitExceeded", delegated |-> FALSE]
    ELSE [w |-> [w EXCEPT !.written = @ + len], n |-> out.n, err |-> out.err, delegated |-> TRUE]

\* A plausible slip: the limit is tested after the sink was called.
LimitWriterWrite_CheckLate(w, len, out) ==
  IF w.written + len > w.Limit
    THEN [w |-> [w EXCEPT !.written = @ + out.n], n |-> 0, err |-> "WriteLimitExceeded", delegated |-> TRUE]
    ELSE [w |-> [w EXCEPT !.written = @ + out.n], n |-> out.n, err |-> out.err, delegated |-> TRUE]

\* LimitWriter.Write(p) with len(p) = len, when the wrapped sink answers out.
LimitWriterWrite(w, len, out) ==
  IF w.written + len > w.Limit
    THEN [w |-> w, n |-> 0, err |-> "WriteLimitExceeded", delegated |-> FALSE]
    ELSE [w |-> [w EXCEPT !.written = @ + out.n], n |-> out.n, err |-> out.err, delegated |-> TRUE]

\* What the sink has seen after a Write that returned r.
SinkAfter(s, r) ==
  IF r.delegated THEN [bytes |-> s.bytes + r.n, calls |-> s.calls + 1] ELSE s

\* ------------------------------------------------ path/filepath (callers)

\* A path string is [abs, segs]: "/a/b" is [TRUE, <<"a","b">>], "a/../b" is
\* [FALSE, <<"a","..","b">>], "." is [FALSE, <<>>] and "/" is [TRUE, <<>>].
P(abs, segs) == [abs |-> abs, segs |-> segs]

NoPath == P(FALSE, <<"">>)

RECURSIVE CleanFrom(_, _, _)
CleanFrom(abs, out, rest) ==
  IF rest = <<>> THEN out
  ELSE LET h == Head(rest)
           t == Tail(rest)
       IN IF h = "." THEN CleanFrom(abs, out, t)
          ELSE IF h # ".." THEN CleanFrom(abs, Append(out, h), t)
          ELSE IF out # <<>> /\ out[Len(out)] # ".."
                 THEN CleanFrom(abs, SubSeq(out, 1, Len(out) - 1), t)
          ELSE IF abs THEN CleanFrom(abs, out, t)
          ELSE CleanFrom(abs, Append(out, ".."), t)

\* filepath.Clean: drops ".", resolves ".." lexically, keeps leading ".." of
\* a relative path and drops ".." at the root of a rooted one.
Clean(p) == P(p.abs, CleanFrom(p.abs, <<>>, p.segs))

\* A sanitising variant: ".." never climbs above the start of the name.
cleanPath_Rooted(p) == P(p.abs, CleanFrom(TRUE, <<>>, p.segs))

\* cleanPath (extract.go:74,119,120): lexical path cleaning.
cleanPath(p) == Clean(p)

\* filepath.Join(b, n) for a non-empty b: Clean(b + "/" + n).
Join(b, n) == Clean(P(b.abs, b.segs \o n.segs))

\* filepath.Dir of a clean path.
Dir(p) == IF p.segs = <<>> THEN p ELSE Clean(P(p.abs, SubSeq(p.segs, 1, Len(p.segs) - 1)))

\* filepath.Base: the last element; "/" for a path of slashes only, "." for "".
Base(p) == IF p.segs = <<>> THEN P(p.abs, <<>>) ELSE P(FALSE, <<p.segs[Len(p.segs)]>>)

\* The working directory of the process, against which the operating system
\* resolves relative paths.
Cwd == <<"s">>

\* The absolute location a path string names.
Abs(p) == IF p.abs THEN CleanFrom(TRUE, <<>>, p.segs) ELSE CleanFrom(TRUE, <<>>, Cwd \o p.segs)

IsPrefix(k, q) == Len(k) <= Len(q) /\ SubSeq(q, 1, Len(k)) = k

Prefixes(k) == { SubSeq(k, 1, i) : i \in 0..Len(k) }

Parent(k) == IF k = <<>> THEN k ELSE SubSeq(k, 1, Len(k) - 1)

\* ------------------------------------------------------- os (callers)

\* Timestamps and owners: objects made now belong to the caller (Me) and
\* carry the current time (Now); archived entries carry Then and Other.
Now == 0
Then == 1
Me == 0
Other == 1

Node(kind, perm, data, link) ==
  [kind |-> kind, perm |-> perm, data |-> data, link |-> link, mtime |-> Now, uid |-> Me]

Exists(f, k) == k \in DOMAIN f

IsDir(f, k) == Exists(f, k) /\ f[k].kind = "dir"

\* os.Stat follows a symbolic link (one level); a dangling or looping link
\* does not resolve.
Resolve(f, k) ==
  IF ~Exists(f, k) THEN <<"!">>
  ELSE IF f[k].kind # "symlink" THEN k
  ELSE LET t == IF f[k].link.abs THEN Abs(f[k].link)
                ELSE CleanFrom(TRUE, <<>>, Parent(k) \o f[k].link.segs)
       IN IF Exists(f, t) /\ f[t].kind # "symlink" THEN t ELSE <<"!">>

Put(f, k, n) == [q \in DOMAIN f \cup {k} |-> IF q = k THEN n ELSE f[q]]

\* os.RemoveAll: the object and everything below it.
RemoveAll(f, k) == [q \in { q \in DOMAIN f : ~IsPrefix(k, q) } |-> f[q]]

\* os.MkdirAll: nothing to do on a directory, an error on any other object or
\* under one, otherwise every missing ancestor and the path are created.
MkdirAll(f, k, perm) ==
  IF \E q \in Prefixes(k) : Exists(f, q) /\ ~IsDir(f, Resolve(f, q))
    THEN [ok |-> FALSE, fs |-> f, made |-> {}]
    ELSE LET missing == { q \in Prefixes(k) : ~Exists(f, q) }
         IN [ok |-> TRUE,
             fs |-> [q \in DOMAIN f \cup missing |-> IF q \in missing THEN Node("dir", perm, <<>>, NoPath) ELSE f[q]],
             made |-> missing]

\* os.OpenFile(O_WRONLY|O_CREATE|O_TRUNC, perm) followed by writing data.
OpenFile(f, k, perm, data) ==
  IF ~IsDir(f, Parent(k)) \/ k = <<>> THEN [ok |-> FALSE, fs |-> f]
  ELSE IF ~Exists(f, k) THEN [ok |-> TRUE, fs |-> Put(f, k, Node("file", perm, data, NoPath))]
  ELSE IF f[k].kind = "file" THEN [ok |-> TRUE, fs |-> [f EXCEPT ![k].data = data, ![k].mtime = Now]]
  ELSE [ok |-> FALSE, fs |-> f]

\* os.Symlink(target, k)
Symlink(f, target, k) ==
  IF ~IsDir(f, Parent(k)) \/ Exists(f, k) THEN [ok |-> FALSE, fs |-> f]
  ELSE [ok |-> TRUE, fs |-> Put(f, k, Node("symlink", 7, <<>>, target))]

\* os.Link(old, k)
Link(f, old, k) ==
  IF ~Exists(f, old) \/ IsDir(f, old) \/ ~IsDir(f, Parent(k)) \/ Exists(f, k) THEN [ok |-> FALSE, fs |-> f]
  ELSE [ok |-> TRUE, fs |-> Put(f, k, f[old])]

\* syscall.Mknod(k, mode, dev): allowed is whether the caller has the privilege.
Mknod(f, k, kind, perm, allowed) ==
  IF ~allowed \/ ~IsDir(f, Parent(k)) \/ Exists(f, k) THEN [ok |-> FALSE, fs |-> f]
  ELSE [ok |-> TRUE, fs |-> Put(f, k, Node(kind, perm, <<>>, NoPath))]

\* os.Chtimes(k, atime, mtime): follows symbolic links.
Chtimes(f, k, t) ==
  LET r == Resolve(f, k)
  IN IF ~Exists(f, r) THEN [ok |-> FALSE, fs |-> f] ELSE [ok |-> TRUE, fs |-> [f EXCEPT ![r].mtime = t]]

\* os.Chown(k, uid, gid): allowed is whether the caller may give files away.
Chown(f, k, uid, allowed) ==
  LET r == Resolve(f, k)
  IN IF ~allowed \/ ~Exists(f, r) THEN [ok |-> FALSE, fs |-> f] ELSE [ok |-> TRUE, fs |-> [f EXCEPT ![r].uid = uid]]

\* --------------------------------------------- create.go: Archive handle

TypeTar == 1
CompressorNone == 0
CompressorGzip == 1

\* Stream lengths are counted in blocks: a header is one block, the
\* end-of-archive trailer two, the compressor's trailer one.
HdrLen == 1
TarTrailerLen == 2
GzTrailerLen == 1

\* The Archive struct. tarR, tarW, pgzipR and pgzipW are 0 (nil) or the index
\* in layers of the object they point to; limited tells whether the writer
\* stack of the handle sits on a LimitWriter.
NewArchive(type, comp) ==
  [Type |-> type, Compressor |-> comp, ReadLimit |-> 0, WriteLimit |-> 0,
   setup |-> FALSE, closed |-> FALSE, readbytes |-> 0,
   tarR |-> 0, tarW |-> 0, pgzipR |-> 0, pgzipW |-> 0, limited |-> FALSE]

\* The tar.Writer of the handle: its sticky error and the payload bytes the
\* current entry still misses.
NewTarWriter == [err |-> "nil", rem |-> 0]

Layer(kind) == [kind |-> kind, closes |-> 0]

\* The handle together with everything its layers reach.
HS(av, ly, lwv, twv, sk, ar, rd) ==
  [a |-> av, layers |-> ly, lw |-> lwv, tw |-> twv, sink |-> sk, archive |-> ar, reads |-> rd]

R(h, err) == [h |-> h, err |-> err]

\* Evaluates v once and hands the value to F.
Let(v, F(_)) == CHOOSE y \in { F(z) : z \in {v} } : TRUE

\* Archive.LimitData / Archive.LimitArchive
LimitDataOp(h, limit) == [h EXCEPT !.a.ReadLimit = limit]

LimitArchiveOp(h, limit) == [h EXCEPT !.a.WriteLimit = limit]

\* A plausible slip: no early return on a handle that is already set up.
AlreadySetup_Never(av) == FALSE

\* create.go:187 and create.go:218: if a.setup { return nil }
AlreadySetup(av) == av.setup

\* Archive.SetupWriter
SetupWriterOp(h) ==
  IF AlreadySetup(h.a) THEN R(h, "nil")
  ELSE Let(h.a.WriteLimit > 0, LAMBDA lim :
       Let(IF lim THEN [h EXCEPT !.layers = Append(@, Layer("limit")), !.lw = NewLimitWriter(h.a.WriteLimit)]
           ELSE h, LAMBDA h1 :
         IF h.a.Compressor \notin {CompressorNone, CompressorGzip} THEN R(h1, "compressor not supported")
         ELSE Let(IF h.a.Compressor = CompressorGzip
                    THEN [h1 EXCEPT !.layers = Append(@, Layer("pgzipW")),
                                    !.a.pgzipW = Len(h1.layers) + 1,
                                    !.a.limited = lim]
                    ELSE h1, LAMBDA h2 :
                IF h.a.Type # TypeTar THEN R(h2, "archive type not supported")
                ELSE R([h2 EXCEPT !.layers = Append(@, Layer("tarW")),
                                  !.a.tarW = Len(h2.layers) + 1,
                                  !.a.limited = lim,
                                  !.tw = NewTarWriter,
                                  !.a.setup = TRUE], "nil"))))

\* Archive.SetupReader; gzOk tells whether the source starts with a header
\* the decompressor accepts (pgzip.NewReader reads it from the source).
SetupReaderOp(h, gzOk) ==
  IF AlreadySetup(h.a) THEN R(h, "nil")
  ELSE IF h.a.Compressor \notin {CompressorNone, CompressorGzip} THEN R(h, "compressor not supported")
  ELSE IF h.a.Compressor = CompressorGzip /\ ~gzOk THEN R([h EXCEPT !.reads = @ + 1], "gzip header")
  ELSE Let(IF h.a.Compressor = CompressorGzip
             THEN [h EXCEPT !.layers = Append(@, Layer("pgzipR")),
                            !.a.pgzipR = Len(h.layers) + 1,
                            !.reads = @ + 1]
             ELSE h, LAMBDA h2 :
         IF h.a.Type # TypeTar THEN R(h2, "archive type not supported")
         ELSE R([h2 EXCEPT !.layers = Append(@, Layer("tarR")),
                           !.a.tarR = Len(h2.layers) + 1,
                           !.a.setup = TRUE], "nil"))

\* What one Write on the handle's stream can meet below the container
\* writer: c is the number of blocks the compressor hands on now (all or
\* none with a compressor, everything without one), out the answer of the
\* sink, which takes all of it or fails.
WriteEnvs(av, len) ==
  { [c |-> c, out |-> o] : c \in (IF av.pgzipW # 0 THEN {0, len} ELSE {len}),
                           o \in { [n |-> len, err |-> "nil"], [n |-> 0, err |-> "io"] } }

\* A Write of c blocks on what the compressor (or, without one, the container
\* writer) wraps: the LimitWriter if the handle has one, else the sink.
LowerWrite(h, c, out) ==
  Let(IF out.n > c THEN [n |-> c, err |-> out.err] ELSE out, LAMBDA o :
  Let(IF h.a.limited THEN LimitWriterWrite(h.lw, c, o)
      ELSE [w |-> h.lw, n |-> o.n, err |-> o.err, delegated |-> TRUE], LAMBDA r :
    [h |-> [h EXCEPT !.lw = r.w, !.sink = SinkAfter(h.sink, r)], n |-> r.n, err |-> r.err]))

\* A Write of len blocks by the container writer: through the compressor (if
\* any), which hands on we.c blocks now, and on to LowerWrite.
StackWrite(h, len, we) ==
  Let(IF we.c < len THEN we.c ELSE len, LAMBDA c :
    IF c = 0 THEN [h |-> h, n |-> len, err |-> "nil"]
    ELSE Let(LowerWrite(h, c, we.out), LAMBDA r :
           [h |-> r.h,
            n |-> IF h.a.pgzipW # 0 THEN (IF r.err = "nil" THEN len ELSE 0) ELSE r.n,
            err |-> r.err]))

\* tar.Writer.Flush, as far as WriteHeader and Close depend on it.
TarFlushErr(twv) ==
  IF twv.err # "nil" THEN twv.err ELSE IF twv.rem > 0 THEN "missed writing" ELSE "nil"

\* a.tarW.WriteHeader(h) (create.go:88); a nil tarW is dereferenced.
TarWriteHeader(h, hdr, we) ==
  IF h.a.tarW = 0 THEN [h |-> h, err |-> "panic"]
  ELSE IF TarFlushErr(h.tw) # "nil" THEN [h |-> h, err |-> TarFlushErr(h.tw)]
  ELSE Let(StackWrite(h, HdrLen, we), LAMBDA r :
         IF r.err # "nil" THEN [h |-> [r.h EXCEPT !.tw.err = r.err], err |-> r.err]
         ELSE [h |-> [r.h EXCEPT !.tw.rem = hdr.Size, !.archive = Append(@, hdr)], err |-> "nil"])

\* a.tarW.Write of the first len bytes of data (inside io.CopyN, create.go:101).
TarWrite(h, len, data, we) ==
  IF h.tw.err # "nil" THEN [h |-> h, n |-> 0, err |-> h.tw.err]
  ELSE Let(StackWrite(h, len, we), LAMBDA r :
         [h |-> [r.h EXCEPT !.tw.rem = @ - r.n,
                            !.archive[Len(h.archive)].data = SubSeq(data, 1, r.n),
                            !.tw.err = r.err],
          n |-> r.n, err |-> r.err])

\* tar.FileInfoHeader(info, link) followed by h.Name = name (create.go:82-87).
TypeflagOf(kind) ==
  CASE kind = "dir" -> "TypeDir"
    [] kind = "file" -> "TypeReg"
    [] kind = "symlink" -> "TypeSymlink"
    [] kind = "chardev" -> "TypeChar"
    [] kind = "blockdev" -> "TypeBlock"
    [] OTHER -> "TypeFifo"

FileInfoHeader(name, node) ==
  [Name |-> name, Typeflag |-> TypeflagOf(node.kind), Mode |-> node.perm,
   Size |-> IF node.kind = "file" THEN Len(node.data) ELSE 0,
   Linkname |-> IF node.kind = "symlink" THEN node.link ELSE NoPath,
   ModTime |-> node.mtime, Uid |-> node.uid, data |-> <<>>]

\* A plausible slip: the limit is compared with the bytes read so far only.
ReadLimitHit_NoSize(av, size) == av.ReadLimit > 0 /\ av.readbytes > av.ReadLimit

\* A plausible slip: the read limit is never enforced.
ReadLimitHit_Off(av, size) == FALSE

\* A plausible slip: a limit of 0 is enforced as a limit of no bytes.
ReadLimitHit_Zero(av, size) == av.readbytes + size > av.ReadLimit

\* create.go:98: a.ReadLimit > 0 && a.readbytes+h.Size > a.ReadLimit
ReadLimitHit(av, size) == av.ReadLimit > 0 /\ av.readbytes + size > av.ReadLimit

E(h, err, cause) == [h |-> h, err |-> err, cause |-> cause]

\* io.CopyN(a.tarW, fd, size) when the file yields avail bytes.
CopyN(h, node, size, avail, we) ==
  Let(IF avail < size THEN avail ELSE size, LAMBDA m :
    IF m = 0 THEN [h |-> h, n |-> 0, err |-> IF size > 0 THEN "EOF" ELSE "nil"]
    ELSE Let(TarWrite(h, m, node.data, we), LAMBDA r :
           [h |-> r.h, n |-> r.n,
            err |-> IF r.err # "nil" THEN r.err ELSE IF r.n < size THEN "EOF" ELSE "nil"]))

\* create.go:92-110: the payload of a regular file, after the header.
AddPayload(h, node, size, env) ==
  IF ~env.openOk THEN E(h, "open", "open")
  ELSE IF ReadLimitHit(h.a, size) THEN E(h, "ReadLimitExceeded", "ReadLimitExceeded")
  ELSE Let(CopyN(h, node, size, env.avail, env.pay), LAMBDA c :
       Let([c.h EXCEPT !.a.readbytes = @ + c.n], LAMBDA h1 :
         IF c.err # "nil" THEN E(h1, "adding file", c.err)
         ELSE IF c.n < size THEN E(h1, "nil", "nil")
         ELSE E(h1, "nil", "nil")))

\* Archive.AddEntry(path, name, info) where path names object k of f and info
\* is its Lstat; env holds what the operating system and the sink answer.
AddEntryOp(h, f, k, name, env) ==
  Let(SetupWriterOp(h), LAMBDA s :
    IF s.err # "nil" THEN E(s.h, "setup failed", s.err)
    ELSE IF s.h.a.Type # TypeTar THEN E(s.h, "archive type not implemented", "archive type not implemented")
    ELSE Let(FileInfoHeader(name, f[k]), LAMBDA hdr :
         Let(TarWriteHeader(s.h, hdr, env.hdr), LAMBDA w :
           IF w.err # "nil" THEN E(w.h, IF w.err = "panic" THEN "panic" ELSE "writing header", w.err)
           ELSE IF f[k].kind # "file" THEN E(w.h, "nil", "nil")
           ELSE AddPayload(w.h, f[k], hdr.Size, env))))

\* a.tarW.Close() (create.go:259)
TarClose(h, we) ==
  Let([h EXCEPT !.layers[h.a.tarW].closes = @ + 1], LAMBDA h0 :
    IF h.tw.err = "closed" THEN [h |-> h0, err |-> "nil"]
    ELSE IF h.tw.err # "nil" THEN [h |-> h0, err |-> h.tw.err]
    ELSE IF h.tw.rem > 0 THEN [h |-> [h0 EXCEPT !.tw.err = "closed"], err |-> "missed writing"]
    ELSE Let(StackWrite(h0, TarTrailerLen, we), LAMBDA r :
           [h |-> [r.h EXCEPT !.tw.err = "closed"], err |-> r.err]))

\* a.pgzipW.Close() (create.go:264): flushes the trailer to what it wraps.
GzipWClose(h, we) ==
  Let(LowerWrite([h EXCEPT !.layers[h.a.pgzipW].closes = @ + 1], GzTrailerLen, we.out), LAMBDA r :
    [h |-> r.h, err |-> r.err])

\* a.pgzipR.Close() (create.go:269)
GzipRClose(h, ok) ==
  [h |-> [h EXCEPT !.layers[h.a.pgzipR].closes = @ + 1], err |-> IF ok THEN "nil" ELSE "io"]

\* A plausible slip: Close returns at the first failing layer.
AfterFailure_Stop(errlist) == errlist = <<>>

\* create.go:258-272 goes on to the next layer whatever the earlier closes returned.
AfterFailure(errlist) == TRUE

\* A plausible slip: Close runs again on a closed handle.
AlreadyClosed_Never(av) == FALSE

\* create.go:252: if a.closed
AlreadyClosed(av) == av.closed

\* One step of Close: a layer was closed with result r; the call is noted
\* under msg, and a failure is added under msg to the list.
CloseLayer(st, r, msg) ==
  [h |-> r.h, errlist |-> IF r.err # "nil" THEN Append(st.errlist, msg) ELSE st.errlist,
   order |-> Append(st.order, msg)]

\* A plausible slip: the compressor is closed before the tar writer that
\* writes through it.
CloseOrder_CompressorFirst == <<"pgzipW", "pgzipR", "tarW">>

\* create.go:257-272: the tar writer, then the gzip writer, then the gzip reader.
CloseOrder == <<"tarW", "pgzipW", "pgzipR">>

\* The block of Close for one kind of layer (create.go:257-261, 262-266,
\* 267-271), on a handle that held the layers of a when Close began.
CloseStep(av, st, kind, env) ==
  IF ~AfterFailure(st.errlist) THEN st
  ELSE CASE kind = "tarW" ->
              IF av.tarW # 0 THEN Let(TarClose(st.h, env.tar), LAMBDA r : CloseLayer(st, r, "close tar")) ELSE st
         [] kind = "pgzipW" ->
              IF av.pgzipW # 0 THEN Let(GzipWClose(st.h, env.gz), LAMBDA r : CloseLayer(st, r, "close gzip")) ELSE st
         [] OTHER ->
              IF av.pgzipR # 0 THEN Let(GzipRClose(st.h, env.rOk), LAMBDA r : CloseLayer(st, r, "close gzip")) ELSE st

\* A plausible slip: Close returns the first failure only.
StringsJoin_First(elems, sep) == IF elems = <<>> THEN <<>> ELSE <<Head(elems)>>

\* strings.Join(elems, sep) (create.go:274): the pieces of the string, in order.
RECURSIVE StringsJoin(_, _)
StringsJoin(elems, sep) ==
  IF Len(elems) <= 1 THEN elems
  ELSE <<Head(elems), sep>> \o StringsJoin(Tail(elems), sep)

\* Archive.Close; the result carries the list of failures collected, the
\* text of the error made of them, and the closes called, in order.
CloseOp(h, env) ==
  IF AlreadyClosed(h.a)
    THEN [h |-> h, err |-> "already closed", errlist |-> <<>>, text |-> <<"already closed">>, order |-> <<>>]
  ELSE
    Let([h |-> [h EXCEPT !.a.closed = TRUE], errlist |-> <<>>, order |-> <<>>], LAMBDA s0 :
    Let(CloseStep(h.a, s0, CloseOrder[1], env), LAMBDA s1 :
    Let(CloseStep(h.a, s1, CloseOrder[2], env), LAMBDA s2 :
    Let(CloseStep(h.a, s2, CloseOrder[3], env), LAMBDA s3 :
      [h |-> s3.h, err |-> IF s3.errlist = <<>> THEN "nil" ELSE "close failed", errlist |-> s3.errlist,
       text |-> StringsJoin(s3.errlist, ", "), order |-> s3.order]))))

\* ------------------------------------------- extract.go: ExtractOptions

\* ExtractOptions, without the fields that only steer printing (Verbose,
\* ShowErrors, Stdout); StderrNil tells whether Stderr is nil, and Errors
\* lists the messages of the errors collected.
ExtractOptions(ow, ia, ro, rt, ff, sn) ==
  [Overwrite |-> ow, Interactive |-> ia, RestoreOwner |-> ro, RestoreTimestamps |-> rt,
   FailOnError |-> ff, StderrNil |-> sn, Errors |-> <<>>]

\* NewExtractOptions()
NewExtractOptions == ExtractOptions(TRUE, TRUE, FALSE, TRUE, FALSE, FALSE)

\* What the operating system and the operator may answer while one entry is
\* extracted: whether the terminal can be opened, the key read at the prompt
\* ("err" when reading fails), whether the caller may create device nodes
\* and change owners, and whether the payload can be read from the archive.
Runes == {"y", "n", "a", "N", "q", "err"}

EntryEnvs(needTty, needPrompt, needPriv, needCopy) ==
  UNION { { [ttyOk |-> t, rune |-> r, priv |-> p, copyOk |-> c] :
              r \in (IF needPrompt /\ t THEN Runes ELSE {"n"}),
              p \in (IF needPriv THEN BOOLEAN ELSE {TRUE}),
              c \in (IF needCopy THEN BOOLEAN ELSE {TRUE}) } :
          t \in (IF needTty THEN BOOLEAN ELSE {TRUE}) }

\* ------------------------------------------------- the platform adapters

OK(f) == [ok |-> TRUE, fs |-> f, msg |-> "nil"]

Fail(f, msg) == [ok |-> FALSE, fs |-> f, msg |-> msg]

Msg(r, msg) == IF r.ok THEN OK(r.fs) ELSE Fail(r.fs, msg)

\* copy(src, dst) (limit.go:54-86)
Copy(f, src, dst) ==
  IF ~Exists(f, src) THEN Fail(f, "lstat")
  ELSE Let(IF Exists(f, dst) /\ f[dst].kind # "file" THEN RemoveAll(f, dst) ELSE f, LAMBDA f1 :
         IF ~Exists(f1, Resolve(f1, src)) THEN Fail(f1, "open")
         ELSE Let(OpenFile(f1, dst, f[src].perm, f1[Resolve(f1, src)].data), LAMBDA w :
                IF ~w.ok THEN Fail(f1, "open")
                ELSE IF f1[Resolve(f1, src)].kind # "file" THEN Fail(w.fs, "copy")
                ELSE OK(Chtimes(w.fs, dst, f[src].mtime).fs)))

\* extractHardlink: remove-then-link (part_000:55-64) or copy (part_004:18-26).
extractHardlink(f, pf, base, h) ==
  Let(Abs(Join(base, h.Name)), LAMBDA newpath :
  Let(Abs(Join(base, h.Linkname)), LAMBDA oldpath :
    IF pf = "windows" THEN Msg(Copy(f, oldpath, newpath), "copy (hardlink)")
    ELSE Msg(Link(RemoveAll(f, newpath), oldpath, newpath), "link")))

\* extractSymlink: remove-then-symlink to Join(base, h.Linkname)
\* (part_000:66-75) or copy (part_004:29-37).
extractSymlink(f, pf, base, h) ==
  Let(Abs(Join(base, h.Name)), LAMBDA newpath :
    IF pf = "windows" THEN Msg(Copy(f, Abs(Join(base, h.Linkname)), newpath), "copy (symlink)")
    ELSE Msg(Symlink(RemoveAll(f, newpath), Join(base, h.Linkname), newpath), "symlink"))

\* extractDevice: mknod (part_000:77-95) or nothing (part_004:40-42).
extractDevice(f, pf, base, h, priv) ==
  IF pf = "windows" THEN OK(f)
  ELSE Msg(Mknod(f, Abs(Join(base, h.Name)), IF h.Typeflag = "TypeChar" THEN "chardev" ELSE "blockdev", h.Mode, priv), "mknod")

\* setOwner: chown (part_000:51-53) or nothing (part_004:13-15).
setOwner(f, pf, k, uid, priv) ==
  IF pf = "windows" THEN OK(f) ELSE Msg(Chown(f, k, uid, priv), "setOwner")

\* extractDir (extract.go:233-239)
extractDir(f, base, h) == Msg(MkdirAll(f, Abs(Join(base, h.Name)), h.Mode), "mkdir")

\* extractFile (extract.go:241-252); copyOk tells whether the payload can be
\* read from the archive.
extractFile(f, base, h, copyOk) ==
  Let(OpenFile(f, Abs(Join(base, h.Name)), h.Mode, IF copyOk THEN h.data ELSE <<>>), LAMBDA w :
    IF ~w.ok THEN Fail(f, "create") ELSE IF ~copyOk THEN Fail(w.fs, "write") ELSE OK(w.fs))

\* ExtractOptions.Apply (extract.go:49-67)
Apply(f, o, pf, k, h, priv) ==
  Let(IF o.RestoreOwner THEN setOwner(f, pf, k, h.Uid, priv) ELSE OK(f), LAMBDA r1 :
  Let(IF o.RestoreTimestamps THEN Msg(Chtimes(r1.fs, k, h.ModTime), "setTimes") ELSE OK(r1.fs), LAMBDA r2 :
    [ok |-> r1.ok /\ r2.ok, fs |-> r2.fs, msg |-> IF r1.ok /\ r2.ok THEN "nil" ELSE "apply"]))

\* ------------------------------------------------ extract.go: Extract

\* No entry decoded yet.
NoEntry == [Name |-> NoPath, Typeflag |-> "", Mode |-> 0, Size |-> 0, Linkname |-> NoPath,
            ModTime |-> Now, Uid |-> Me, data |-> <<>>]

\* The state of one Extract call: the locals base, bstat, interactive,
\* overwrite, tty, seen and h, the key r read at the prompt for h ("" when
\* there was no prompt), the error err that the reconstruction of h returned
\* (extract.go:191-208), and the number of calls begun. Two fields record
\* what happened: keys, the keys read at the prompts of this call, and did,
\* whether h was skipped ("skipped") or handed to its reconstruction
\* ("extracted").
XIdle(calls) ==
  [pc |-> "idle", base |-> NoPath, bperm |-> 0, interactive |-> FALSE, overwrite |-> FALSE,
   tty |-> FALSE, seen |-> {}, h |-> NoEntry, r |-> "", err |-> "nil",
   keys |-> {}, did |-> "", calls |-> calls]

\* tar.NewReader: nothing decoded, no error met.
NewTarReader == [n |-> 0, err |-> "nil"]

XR(f, o, xv, out, err) == [fs |-> f, opts |-> o, x |-> xv, out |-> out, err |-> err]

\* A plausible slip: a nil Stderr is written to like any other.
StderrUsable_Always(o) == TRUE

\* extract.go:101-107: hErr stays nil when opts.Stderr is nil (the guard
\* replaces hOut), and fmt.Fprintf on a nil writer panics.
StderrUsable(o) == ~o.StderrNil

\* A plausible slip: 'q' declines the entry like 'n'.
Answer_QuitSkips(r) ==
  CASE r = "y" -> "proceed" [] r = "a" -> "all" [] r = "N" -> "none" [] OTHER -> "skip"

\* extract.go:152-171: the meaning of the key read at the prompt ('\r' and
\* '\n' count as 'n', 'A' as 'a', 'Q' as 'q'; any other key is read again).
Answer(r) ==
  CASE r = "y" -> "proceed" [] r = "n" -> "skip" [] r = "a" -> "all" [] r = "N" -> "none" [] OTHER -> "quit"

\* extract.go:125-175: what to do with an entry whose path exists.
Conflict(o, xv, env) ==
  IF xv.overwrite THEN [x |-> xv, act |-> "proceed"]
  ELSE IF ~xv.interactive THEN [x |-> xv, act |-> IF StderrUsable(o) THEN "skip" ELSE "panic"]
  ELSE IF ~xv.tty /\ ~env.ttyOk
         THEN [x |-> [xv EXCEPT !.interactive = FALSE], act |-> IF StderrUsable(o) THEN "skip" ELSE "panic"]
  ELSE Let([xv EXCEPT !.tty = TRUE, !.r = env.rune, !.keys = @ \cup {env.rune}], LAMBDA x1 :
         IF env.rune = "err"
           THEN [x |-> [x1 EXCEPT !.interactive = FALSE], act |-> IF StderrUsable(o) THEN "skip" ELSE "panic"]
         ELSE Let(Answer(env.rune), LAMBDA ans :
           [x |-> [x1 EXCEPT !.overwrite = @ \/ ans = "all", !.interactive = @ /\ ans # "none"],
            act |-> CASE ans \in {"proceed", "all"} -> "proceed"
                      [] ans \in {"skip", "none"} -> "skip"
                      [] OTHER -> "quit"]))

\* extract.go:192-208: the reconstruction by entry type.
Dispatch(f, pf, base, h, env) ==
  CASE h.Typeflag = "TypeDir" -> extractDir(f, base, h)
    [] h.Typeflag = "TypeReg" -> extractFile(f, base, h, env.copyOk)
    [] h.Typeflag = "TypeLink" -> extractHardlink(f, pf, base, h)
    [] h.Typeflag = "TypeSymlink" -> extractSymlink(f, pf, base, h)
    [] h.Typeflag \in {"TypeChar", "TypeBlock"} -> extractDevice(f, pf, base, h, env.priv)
    [] OTHER -> Fail(f, "unsupported type")

\* A plausible slip: a failed entry does not end the call under fail-fast.
FailFast_Never(o) == FALSE

\* extract.go:216: if opts.FailOnError
FailFast(o) == o.FailOnError

\* A plausible slip: the error of an entry is not recorded.
Record_Not(o, msg) == o

\* extract.go:212: opts.Errors = append(opts.Errors, err)
Record(o, msg) == [o EXCEPT !.Errors = Append(@, msg)]

\* extract.go:187-228: reconstruction, error policy and metadata.
Reconstruct(f, o, xw, pf, h, path, env) ==
  Let([xw EXCEPT !.did = "extracted"], LAMBDA xv :
  Let(Dispatch(f, pf, xv.base, h, env), LAMBDA r :
    IF h.Typeflag = "TypeSymlink" THEN XR(r.fs, o, [xv EXCEPT !.err = r.msg], "continue", "nil")
    ELSE
      Let([xv EXCEPT !.err = r.msg, !.seen = IF h.Typeflag = "TypeDir" THEN @ \cup {path} ELSE @], LAMBDA x1 :
        IF ~r.ok /\ FailFast(o) THEN XR(r.fs, Record(o, r.msg), x1, "return", r.msg)
        ELSE Let(IF r.ok THEN o ELSE Record(o, r.msg), LAMBDA o1 :
             Let(IF r.ok THEN [x1 EXCEPT !.seen = @ \cup {Dir(path)}] ELSE x1, LAMBDA x2 :
             Let(Apply(r.fs, o1, pf, Abs(path), h, env.priv), LAMBDA m :
               IF ~m.ok /\ FailFast(o1) THEN XR(m.fs, o1, x2, "return", m.msg)
               ELSE XR(m.fs, o1, x2, "continue", "nil")))))))

\* extract.go:119-229: one entry, from the cleaning of its name on.
ExtractEntryOp(f, o, xw, pf, e, env) ==
  Let([e EXCEPT !.Name = cleanPath(e.Name), !.Linkname = cleanPath(cleanPath(e.Name))], LAMBDA h :
  Let([xw EXCEPT !.h = h, !.r = "", !.err = "nil", !.did = ""], LAMBDA xv :
  Let(Join(xv.base, h.Name), LAMBDA path :
    IF Exists(f, Abs(path))
      THEN Let(Conflict(o, xv, env), LAMBDA c :
             CASE c.act = "panic" -> XR(f, o, c.x, "panic", "panic")
               [] c.act = "skip" -> XR(f, o, [c.x EXCEPT !.did = "skipped"], "continue", "nil")
               [] c.act = "quit" -> XR(f, o, c.x, "return", "ExtractionAborted")
               [] OTHER -> Reconstruct(RemoveAll(f, Abs(path)), o, c.x, pf, h, path, env))
      ELSE IF Dir(path) \notin xv.seen
             THEN Reconstruct(MkdirAll(f, Abs(Dir(path)), xv.bperm).fs, o,
                              [xv EXCEPT !.seen = @ \cup {Dir(path)}], pf, h, path, env)
             ELSE Reconstruct(f, o, xv, pf, h, path, env))))

\* ------------------------------------------------- the filesystem objects

FS(pairs) == [k \in { p[1] : p \in pairs } |-> (CHOOSE p \in pairs : p[1] = k)[2]]

\* The root, the working directory /s and the destination /d.
Roots == { <<<<>>, Node("dir", 7, <<>>, NoPath)>>,
           <<<<"s">>, Node("dir", 7, <<>>, NoPath)>>,
           <<<<"d">>, Node("dir", 7, <<>>, NoPath)>> }

\* Source trees under /s: a directory t with a file and a symbolic link to
\* it; a directory t with a subdirectory and two names of one file; a file.
Tree1 == { <<<<"s", "t">>, Node("dir", 5, <<>>, NoPath)>>,
           <<<<"s", "t", "f">>, Node("file", 6, <<1>>, NoPath)>>,
           <<<<"s", "t", "l">>, Node("symlink", 7, <<>>, P(FALSE, <<"f">>))>> }

Tree2 == { <<<<"s", "t">>, Node("dir", 7, <<>>, NoPath)>>,
           <<<<"s", "t", "a">>, Node("dir", 5, <<>>, NoPath)>>,
           <<<<"s", "t", "a", "f">>, Node("file", 4, <<1, 2>>, NoPath)>>,
           <<<<"s", "t", "g">>, Node("file", 4, <<1, 2>>, NoPath)>> }

Tree3 == { <<<<"s", "f">>, Node("file", 6, <<2>>, NoPath)>> }

SourceTrees == { FS(Roots \cup Tree1), FS(Roots \cup Tree2), FS(Roots \cup Tree3) }

\* The lexical order of the names used (filepath.Walk visits in this order).
SegOrder == <<"..", ".", "a", "b", "d", "f", "g", "l", "s", "t">>

SegIndex(s) == CHOOSE i \in 1..Len(SegOrder) : SegOrder[i] = s

RECURSIVE SortedSeq(_)
SortedSeq(S) ==
  IF S = {} THEN <<>>
  ELSE LET m == CHOOSE k \in S : \A q \in S : SegIndex(k[Len(k)]) <= SegIndex(q[Len(q)])
       IN <<m>> \o SortedSeq(S \ {m})

\* The names in directory k, sorted (ioutil.ReadDir inside filepath.Walk).
Children(f, k) == SortedSeq({ q \in DOMAIN f : Len(q) = Len(k) + 1 /\ IsPrefix(k, q) })

\* ------------------------------------------------ create.go: the pipeline

H == HS(a, layers, lw, tw, sink, archive, reads)

SetH(h) ==
  /\ a' = h.a
  /\ layers' = h.layers
  /\ lw' = h.lw
  /\ tw' = h.tw
  /\ sink' = h.sink
  /\ archive' = h.archive
  /\ reads' = h.reads

Return(op, err, cause) == [NoRet EXCEPT !.op = op, !.err = err, !.cause = cause]

Idle == ap.pc = "idle" /\ x.pc = "idle"

Count == ops < MaxOps /\ ops' = ops + 1

ApIdle(n) ==
  [pc |-> "idle", roots |-> <<>>, queue |-> <<>>, arg |-> NoPath, root |-> <<>>, prepend |-> NoPath,
   base |-> NoPath, n |-> n]

\* What the operating system and the sink may answer during one AddEntry on
\* an object of the given size.
AddEnvs(av, size) ==
  { [openOk |-> o, avail |-> v, hdr |-> wh, pay |-> wp] :
      o \in BOOLEAN, v \in 0..size, wh \in WriteEnvs(av, HdrLen), wp \in WriteEnvs(av, size) }

LimitData ==
  /\ Idle /\ Count
  /\ \E l \in 0..MaxLimit : SetH(LimitDataOp(H, l))
  /\ ret' = Return("LimitData", "nil", "nil")
  /\ UNCHANGED <<fs, ap>>
  /\ UNCHANGED xvars

LimitArchive ==
  /\ Idle /\ Count
  /\ \E l \in 0..MaxLimit : SetH(LimitArchiveOp(H, l))
  /\ ret' = Return("LimitArchive", "nil", "nil")
  /\ UNCHANGED <<fs, ap>>
  /\ UNCHANGED xvars

SetupWriter ==
  /\ Idle /\ Count
  /\ \E r \in {SetupWriterOp(H)} :
       /\ SetH(r.h)
       /\ ret' = [Return("SetupWriter", r.err, r.err) EXCEPT !.before = IF a.setup THEN 1 ELSE 0]
  /\ UNCHANGED <<fs, ap>>
  /\ UNCHANGED xvars

SetupReader ==
  /\ Idle /\ Count
  /\ \E gzOk \in BOOLEAN :
       \E r \in {SetupReaderOp(H, gzOk)} :
         /\ SetH(r.h)
         /\ ret' = [Return("SetupReader", r.err, r.err) EXCEPT !.before = IF a.setup THEN 1 ELSE 0]
  /\ UNCHANGED <<fs, ap>>
  /\ UNCHANGED xvars

\* The objects a caller can name: everything under the working directory.
Sources(f) == { k \in DOMAIN f : IsPrefix(Cwd, k) /\ k # Cwd }

AddEntry ==
  /\ Idle /\ Count
  /\ \E k \in Sources(fs) : \E env \in AddEnvs(a, Len(fs[k].data)) :
       \E r \in {AddEntryOp(H, fs, k, Base(P(TRUE, k)), env)} :
         /\ SetH(r.h)
         /\ ret' = [Return("AddEntry", r.err, r.cause) EXCEPT
                      !.kind = fs[k].kind, !.len = Len(fs[k].data), !.before = a.readbytes,
                      !.n = IF Len(r.h.archive) > Len(archive) THEN Len(r.h.archive[Len(r.h.archive)].data) ELSE 0]
  /\ UNCHANGED <<fs, ap>>
  /\ UNCHANGED xvars

Close ==
  /\ Idle /\ Count
  /\ \E wt \in WriteEnvs(a, TarTrailerLen), wg \in WriteEnvs(a, GzTrailerLen), rOk \in BOOLEAN :
       \E r \in {CloseOp(H, [tar |-> wt, gz |-> wg, rOk |-> rOk])} :
         /\ SetH(r.h)
         /\ ret' = [Return("Close", r.err, r.err) EXCEPT !.errlist = r.errlist, !.text = r.text, !.order = r.order, !.before = IF a.closed THEN 1 ELSE 0]
  /\ UNCHANGED <<fs, ap>>
  /\ UNCHANGED xvars

\* The path arguments tried: "t", "", ".", "f", "/s/t", "t/..", "/" and a
\* path that does not exist.
RootArgs == { P(FALSE, <<"t">>), P(FALSE, <<>>), P(FALSE, <<".">>), P(FALSE, <<"f">>),
              P(TRUE, <<"s", "t">>), P(FALSE, <<"t", "..">>), P(TRUE, <<>>), P(FALSE, <<"b">>) }

MaxRoots == 2

MaxWalks == 1

RECURSIVE SeqsUpTo(_, _)
SeqsUpTo(S, n) ==
  IF n = 0 THEN { <<>> }
  ELSE LET shorter == SeqsUpTo(S, n - 1)
       IN shorter \cup { Append(q, e) : q \in shorter, e \in S }

\* A plausible slip: the name to prepend is taken from the resolved location
\* of the root, so from the working directory when the argument is ".".
Prepend_Resolved(path) ==
  IF Abs(path) = <<>> THEN P(TRUE, <<>>) ELSE P(FALSE, <<Abs(path)[Len(Abs(path))]>>)

\* create.go:23-29: the name to prepend, "" (NoPath) for a base name of "." or "..".
Prepend(path) ==
  LET b == Base(path)
  IN IF ~b.abs /\ b.segs \in { <<>>, <<".">>, <<"..">> } THEN NoPath ELSE b

\* create.go:34-53: the name the walk callback gives the object rel below the
\* root; NoPath when the callback returns without adding an entry.
EntryName(base, prepend, rel, isDir) ==
  IF rel = <<>> /\ ~isDir THEN Base(base)
  ELSE IF prepend # NoPath THEN Join(prepend, P(FALSE, rel))
  ELSE IF rel = <<>> THEN NoPath
  ELSE P(FALSE, rel)

ArchivePathBegin ==
  /\ Idle /\ Count /\ ap.n < MaxWalks
  /\ \E paths \in SeqsUpTo(RootArgs, MaxRoots) :
       \E r \in {SetupWriterOp(H)} :
         /\ SetH(r.h)
         /\ IF r.err # "nil"
              THEN ap' = ApIdle(ap.n + 1) /\ ret' = Return("ArchivePath", "setup failed", r.err)
              ELSE /\ ap' = [ApIdle(ap.n + 1) EXCEPT !.pc = "root", !.roots = paths]
                   /\ ret' = Return("ArchivePath", "running", "nil")
  /\ UNCHANGED fs
  /\ UNCHANGED xvars

\* create.go:19-30 and the first Lstat of filepath.Walk.
ArchiveRoot ==
  /\ ap.pc = "root" /\ ap.roots # <<>>
  /\ LET path == Head(ap.roots)
         base == Clean(path)
     IN IF ~Exists(fs, Abs(base))
          THEN ap' = ApIdle(ap.n) /\ ret' = Return("ArchivePath", "lstat", "lstat")
          ELSE /\ ap' = [pc |-> "walk", roots |-> Tail(ap.roots), queue |-> <<Abs(base)>>,
                         arg |-> path, root |-> Abs(base), prepend |-> Prepend(path), base |-> base, n |-> ap.n]
               /\ ret' = ret
  /\ UNCHANGED <<lw, sink, a, layers, tw, archive, reads, fs, ops>>
  /\ UNCHANGED xvars

\* A plausible slip: the walk goes on after a failed AddEntry.
WalkErr_DropAdd(addErr, isDir, readOk) == IF isDir /\ ~readOk THEN "readdir" ELSE "nil"

\* What filepath.Walk gets back for one object: the error of the callback
\* (create.go:45, 54), else the error of reading the directory; any error
\* ends the walk and is returned (create.go:55-57).
WalkErr(addErr, isDir, readOk) ==
  IF addErr # "nil" THEN addErr ELSE IF isDir /\ ~readOk THEN "readdir" ELSE "nil"

\* One call of the walk callback (create.go:30-54), then the directory read
\* of filepath.Walk when the object is a directory.
ArchiveVisit ==
  /\ ap.pc = "walk"
  /\ \E k \in {Head(ap.queue)} :
     \E name \in {EntryName(ap.base, ap.prepend, SubSeq(k, Len(ap.root) + 1, Len(k)), IsDir(fs, k))} :
     \E env \in AddEnvs(a, Len(fs[k].data)), readOk \in (IF IsDir(fs, k) THEN BOOLEAN ELSE {TRUE}) :
     \E r \in {IF name = NoPath THEN E(H, "nil", "nil") ELSE AddEntryOp(H, fs, k, name, env)} :
     \E err \in {WalkErr(r.err, IsDir(fs, k), readOk)} :
     \E q \in {(IF IsDir(fs, k) THEN Children(fs, k) ELSE <<>>) \o Tail(ap.queue)} :
       /\ SetH(r.h)
       /\ IF err # "nil"
            THEN ap' = ApIdle(ap.n) /\ ret' = Return("ArchivePath", err, IF r.err # "nil" THEN r.cause ELSE err)
            ELSE /\ ap' = [ap EXCEPT !.queue = q, !.pc = IF q = <<>> THEN "root" ELSE "walk"]
                 /\ ret' = ret
  /\ UNCHANGED <<fs, ops>>
  /\ UNCHANGED xvars

ArchivePathReturn ==
  /\ ap.pc = "root" /\ ap.roots = <<>>
  /\ ap' = ApIdle(ap.n)
  /\ ret' = Return("ArchivePath", "nil", "nil")
  /\ UNCHANGED <<lw, sink, a, layers, tw, archive, reads, fs, ops>>
  /\ UNCHANGED xvars

\* ------------------------------------------------------ specifications

Handles == { NewArchive(t, c) : t \in {0, TypeTar}, c \in {CompressorNone, CompressorGzip, 2} }

InitCreate ==
  /\ lw = NewLimitWriter(0)
  /\ sink = [bytes |-> 0, calls |-> 0]
  /\ ret = NoRet
  /\ a \in Handles
  /\ layers = <<>>
  /\ tw = NewTarWriter
  /\ archive = <<>>
  /\ reads = 0
  /\ fs \in SourceTrees
  /\ ap = ApIdle(0)
  /\ ops = 0
  /\ tr = NewTarReader
  /\ opts = NewExtractOptions
  /\ x = XIdle(0)
  /\ platform = "posix"
  /\ feed = "none"
  /\ touched = {}

NextCreate ==
  \/ LimitData
  \/ LimitArchive
  \/ SetupWriter
  \/ SetupReader
  \/ AddEntry
  \/ Close
  \/ ArchivePathBegin
  \/ ArchiveRoot
  \/ ArchiveVisit
  \/ ArchivePathReturn

SpecCreate == InitCreate /\ [][NextCreate]_vars

NextHandle ==
  \/ LimitData
  \/ LimitArchive
  \/ SetupWriter
  \/ SetupReader
  \/ AddEntry
  \/ Close

SpecHandle == InitCreate /\ [][NextHandle]_vars

\* One call of ArchivePath, on up to MaxRoots path arguments.
NextWalk ==
  \/ ap.n = 0 /\ ArchivePathBegin
  \/ ArchiveRoot
  \/ ArchiveVisit
  \/ ArchivePathReturn

SpecWalk == InitCreate /\ [][NextWalk]_vars
\* -------------------------------------------- extract.go: the Extract call

MaxEntries == 2

MaxExtracts == 1

\* The destination argument.
DestArgs == { P(TRUE, <<"d">>) }

Entry(name, type) ==
  [Name |-> name, Typeflag |-> type, Mode |-> 6, Size |-> IF type = "TypeReg" THEN 1 ELSE 0,
   Linkname |-> IF type \in {"TypeLink", "TypeSymlink"} THEN P(FALSE, <<"t">>) ELSE NoPath,
   ModTime |-> Then, Uid |-> Other, data |-> IF type = "TypeReg" THEN <<9>> ELSE <<>>]

\* The entries a foreign archive may hold: a file, a directory, a symbolic
\* link, a hard link, a device and a FIFO named "a", a file and a symbolic
\* link named "a/b", and a file named "../x".
EntrySet ==
  { Entry(P(FALSE, <<"a">>), t) : t \in {"TypeReg", "TypeDir", "TypeSymlink", "TypeLink", "TypeChar", "TypeFifo"} }
  \cup { Entry(P(FALSE, <<"a", "b">>), t) : t \in {"TypeReg", "TypeSymlink"} }
  \cup { Entry(P(FALSE, <<"..", "x">>), "TypeReg") }

\* a.tarR.Next() (extract.go:111): the entries the reader can yield now.
Feed == IF feed = "any" THEN EntrySet
        ELSE IF tr.n < Len(archive) THEN { archive[tr.n + 1] } ELSE {}

\* The filesystem locations that differ between f and g.
Changed(f, g) ==
  { q \in DOMAIN f \cup DOMAIN g : q \notin DOMAIN f \/ q \notin DOMAIN g \/ f[q] # g[q] }

NoWrite(len) == [c |-> len, out |-> [n |-> len, err |-> "nil"]]

\* What the layers may answer while the deferred a.Close() runs.
CloseEnvs(av) ==
  { [tar |-> wt, gz |-> wg, rOk |-> r] :
      wt \in (IF av.tarW # 0 /\ ~av.closed THEN WriteEnvs(av, TarTrailerLen) ELSE {NoWrite(TarTrailerLen)}),
      wg \in (IF av.pgzipW # 0 /\ ~av.closed THEN WriteEnvs(av, GzTrailerLen) ELSE {NoWrite(GzTrailerLen)}),
      r \in (IF av.pgzipR # 0 /\ ~av.closed THEN BOOLEAN ELSE {TRUE}) }

\* A return of Extract after extract.go:89: the deferred a.Close() runs, its
\* error is dropped; a panic ends the program.
ExtractReturn(h, xv, err, n) ==
  \E env \in CloseEnvs(h.a) :
    \E c \in {CloseOp(h, env)} :
      /\ SetH(c.h)
      /\ x' = [XIdle(x.calls) EXCEPT !.pc = IF err = "panic" THEN "panic" ELSE "idle", !.h = xv.h, !.r = xv.r, !.err = xv.err, !.did = xv.did]
      /\ ret' = [Return("Extract", err, err) EXCEPT !.n = n, !.before = IF a.closed THEN 1 ELSE 0]

\* A plausible slip: anything that exists is taken for a destination.
StatDest_Exists(f, k) ==
  IF ~Exists(f, k) THEN "destination directory does not exist" ELSE "nil"

\* extract.go:76-84: os.Stat(base) and the tests on its result, for the
\* object k that base resolves to.
StatDest(f, k) ==
  IF ~Exists(f, k) THEN "destination directory does not exist"
  ELSE IF ~IsDir(f, k) THEN "destination is not a directory"
  ELSE "nil"

\* extract.go:70-109
ExtractBegin ==
  /\ Idle /\ x.calls < MaxExtracts
  /\ \E base \in { cleanPath(b) : b \in DestArgs }, isatty \in (IF opts.Interactive THEN BOOLEAN ELSE {FALSE}),
        gzOk \in (IF a.Compressor = CompressorGzip /\ ~a.setup THEN BOOLEAN ELSE {TRUE}) :
       \E k \in {Resolve(fs, Abs(base))} :
         IF StatDest(fs, k) # "nil"
           THEN /\ ret' = Return("Extract", StatDest(fs, k), "stat")
                /\ x' = XIdle(x.calls + 1)
                /\ UNCHANGED <<lw, sink, a, layers, tw, archive, reads>>
           ELSE \E r \in {SetupReaderOp(H, gzOk)} :
                  /\ SetH(r.h)
                  /\ IF r.err # "nil"
                       THEN ret' = Return("Extract", "setup", r.err) /\ x' = XIdle(x.calls + 1)
                       ELSE /\ ret' = NoRet
                            /\ x' = [pc |-> "loop", base |-> base, bperm |-> fs[k].perm,
                                     interactive |-> opts.Interactive /\ isatty, overwrite |-> opts.Overwrite,
                                     tty |-> FALSE, seen |-> {}, h |-> NoEntry, r |-> "", err |-> "nil",
                                     keys |-> {}, did |-> "", calls |-> x.calls + 1]
  /\ UNCHANGED <<fs, ap, ops, tr, opts, platform, feed, touched>>

\* One iteration of the loop that decodes an entry (extract.go:111-229).
ExtractEntry ==
  /\ x.pc = "loop" /\ a.tarR # 0 /\ tr.err = "nil"
  /\ feed = "any" => tr.n < MaxEntries
  /\ \E e \in Feed :
     \E path \in {Abs(Join(x.base, cleanPath(e.Name)))} :
     \E env \in EntryEnvs(~x.tty, Exists(fs, path) /\ ~x.overwrite /\ x.interactive,
                          platform = "posix" /\ (opts.RestoreOwner \/ e.Typeflag \in {"TypeChar", "TypeBlock"}),
                          e.Typeflag = "TypeReg") :
     \E r \in {ExtractEntryOp(fs, opts, x, platform, e, env)} :
       /\ fs' = r.fs
       /\ opts' = r.opts
       /\ touched' = touched \cup Changed(fs, r.fs)
       /\ tr' = [tr EXCEPT !.n = @ + 1]
       /\ IF r.out = "continue"
            THEN /\ x' = r.x
                 /\ reads' = reads + 1
                 /\ UNCHANGED <<lw, sink, ret, a, layers, tw, archive>>
            ELSE ExtractReturn([H EXCEPT !.reads = @ + 1], r.x, r.err, tr.n + 1)
  /\ UNCHANGED <<ap, ops, platform, feed>>

\* extract.go:112-115: the reader reports the end of the archive, now or,
\* having met it before, again.
ExtractEOF ==
  /\ x.pc = "loop" /\ a.tarR # 0
  /\ \/ tr.err = "EOF"
     \/ tr.err = "nil" /\ (feed = "any" \/ tr.n = Len(archive))
  /\ tr' = [tr EXCEPT !.err = "EOF"]
  /\ ExtractReturn([H EXCEPT !.reads = IF tr.err = "nil" THEN @ + 1 ELSE @], x, "nil", tr.n)
  /\ UNCHANGED <<fs, ap, ops, opts, platform, feed, touched>>

\* extract.go:116: the reader reports any other error, now or again.
ExtractDecodeError ==
  /\ x.pc = "loop" /\ a.tarR # 0
  /\ \/ tr.err = "decode"
     \/ tr.err = "nil" /\ feed = "any"
  /\ tr' = [tr EXCEPT !.err = "decode"]
  /\ ExtractReturn([H EXCEPT !.reads = IF tr.err = "nil" THEN @ + 1 ELSE @], x, "decode", tr.n)
  /\ UNCHANGED <<fs, ap, ops, opts, platform, feed, touched>>

\* extract.go:111 on a handle that was set up for writing: a.tarR is nil.
ExtractNilReader ==
  /\ x.pc = "loop" /\ a.tarR = 0
  /\ ExtractReturn(H, x, "panic", tr.n)
  /\ UNCHANGED <<fs, ap, ops, tr, opts, platform, feed, touched>>

\* ------------------------------------------------------ specifications

\* Destinations: an empty /d; /d with a file a; /d with a directory a that
\* holds a file b; no /d; a file at /d.
DestTrees ==
  { FS(Roots),
    FS(Roots \cup { <<<<"d", "a">>, Node("file", 6, <<5>>, NoPath)>> }),
    FS(Roots \cup { <<<<"d", "a">>, Node("dir", 7, <<>>, NoPath)>>,
                    <<<<"d", "a", "b">>, Node("file", 6, <<5>>, NoPath)>> }),
    FS({ p \in Roots : p[1] # <<"d">> }),
    FS({ p \in Roots : p[1] # <<"d">> } \cup { <<<<"d">>, Node("file", 6, <<>>, NoPath)>> }) }

\* The options tried: every conflict and failure policy, with the defaults
\* for the restoring of owners and timestamps. With Overwrite on, Interactive
\* and Stderr are never consulted and stay as NewExtractOptions sets them.
OptionSets ==
  { o \in { ExtractOptions(ow, ia, FALSE, TRUE, ff, sn) :
              ow \in BOOLEAN, ia \in BOOLEAN, ff \in BOOLEAN, sn \in BOOLEAN } :
      o.Overwrite => o.Interactive /\ ~o.StderrNil }

InitExtract ==
  /\ lw = NewLimitWriter(0)
  /\ sink = [bytes |-> 0, calls |-> 0]
  /\ ret = NoRet
  /\ a \in Handles
  /\ layers = <<>>
  /\ tw = NewTarWriter
  /\ archive = <<>>
  /\ reads = 0
  /\ fs \in DestTrees
  /\ ap = ApIdle(0)
  /\ ops = 0
  /\ tr = NewTarReader
  /\ opts \in OptionSets
  /\ x = XIdle(0)
  /\ platform \in {"posix", "windows"}
  /\ feed = "any"
  /\ touched = {}

NextExtract ==
  \/ ExtractBegin
  \/ ExtractEntry
  \/ ExtractEOF
  \/ ExtractDecodeError

SpecExtract == InitExtract /\ [][NextExtract]_vars

\* Extract on a handle that the caller may have closed before: nothing in
\* Extract or SetupReader looks at a.closed (extract.go:70-89,
\* create.go:217-248).
InitReuse ==
  /\ InitExtract
  /\ fs = FS(Roots \cup { <<<<"d", "a">>, Node("file", 6, <<5>>, NoPath)>> })
  /\ opts \in { NewExtractOptions, ExtractOptions(FALSE, TRUE, FALSE, TRUE, TRUE, FALSE) }
  /\ platform = "posix"

NextReuse ==
  \/ x.calls = 0 /\ ops = 0 /\ Close
  \/ ExtractBegin
  \/ ExtractEntry
  \/ ExtractEOF
  \/ ExtractDecodeError

SpecReuse == InitReuse /\ [][NextReuse]_vars

\* Archive() (create.go:143-160) on the stream a closed handle has written:
\* a new handle of the same kind, for reading.
Reopen ==
  /\ Idle /\ feed = "none"
  /\ ret.op = "Close" /\ ret.err = "nil" /\ archive # <<>>
  /\ a' = NewArchive(a.Type, a.Compressor)
  /\ layers' = <<>>
  /\ lw' = NewLimitWriter(0)
  /\ tw' = NewTarWriter
  /\ tr' = NewTarReader
  /\ reads' = 0
  /\ feed' = "archive"
  /\ ret' = [NoRet EXCEPT !.op = "Archive"]
  /\ UNCHANGED <<sink, archive, fs, ap, ops, opts, x, platform, touched>>

InitRound ==
  /\ lw = NewLimitWriter(0)
  /\ sink = [bytes |-> 0, calls |-> 0]
  /\ ret = NoRet
  /\ a \in { NewArchive(TypeTar, c) : c \in {CompressorNone, CompressorGzip} }
  /\ layers = <<>>
  /\ tw = NewTarWriter
  /\ archive = <<>>
  /\ reads = 0
  /\ fs \in SourceTrees
  /\ ap = ApIdle(0)
  /\ ops = 0
  /\ tr = NewTarReader
  /\ opts \in { ExtractOptions(TRUE, FALSE, ro, rt, ff, FALSE) : ro \in BOOLEAN, rt \in BOOLEAN, ff \in BOOLEAN }
  /\ x = XIdle(0)
  /\ platform \in {"posix", "windows"}
  /\ feed = "none"
  /\ touched = {}

NextRound ==
  \/ ops = 0 /\ ArchivePathBegin /\ Len(ap'.roots) = 1
  \/ ArchiveRoot
  \/ ArchiveVisit
  \/ ArchivePathReturn
  \/ feed = "none" /\ ret.op = "ArchivePath" /\ ret.err = "nil" /\ Close
  \/ Reopen
  \/ feed = "archive" /\ ExtractBegin
  \/ ExtractEntry
  \/ ExtractEOF

SpecRound == InitRound /\ [][NextRound]_vars

InitLW ==
  /\ lw \in { NewLimitWriter(l) : l \in 0..MaxLimit }
  /\ sink = [bytes |-> 0, calls |-> 0]
  /\ ret = NoRet
  /\ a = NewArchive(TypeTar, CompressorNone)
  /\ layers = <<>>
  /\ tw = NewTarWriter
  /\ archive = <<>>
  /\ reads = 0
  /\ fs = FS(Roots)
  /\ ap = ApIdle(0)
  /\ ops = 0
  /\ tr = NewTarReader
  /\ opts = NewExtractOptions
  /\ x = XIdle(0)
  /\ platform = "posix"
  /\ feed = "none"
  /\ touched = {}

Write ==
  /\ sink.calls < MaxCalls
  /\ \E len \in 0..MaxBuf : \E out \in SinkOutcomes(len) :
       LET r == LimitWriterWrite(lw, len, out) IN
         /\ lw' = r.w
         /\ sink' = SinkAfter(sink, r)
         /\ ret' = [NoRet EXCEPT !.op = "Write", !.len = len, !.before = lw.written, !.n = r.n, !.err = r.err, !.cause = r.err]
  /\ UNCHANGED <<a, layers, tw, archive, reads, fs, ap, ops>>
  /\ UNCHANGED xvars

NextLW == Write

SpecLW == InitLW /\ [][NextLW]_vars

\* ------------------------------------------------------------- claims

\* C1: with Limit N the sink never holds more than N bytes, and a Write whose
\* buffer would push the cumulative count past N returns WriteLimitExceeded.
C1_WriteLimit ==
  /\ sink.bytes <= lw.Limit
  /\ (ret.op = "Write" /\ ret.before + ret.len > lw.Limit) => ret.err = "WriteLimitExceeded"

C1_Witness ==
  /\ ret.op = "Write" /\ ret.err = "WriteLimitExceeded"
  /\ sink.bytes > 0 /\ sink.bytes < ret.before + ret.len

\* The case of C2: AddEntry was called on a regular file of size s with a
\* read limit L > 0 and readbytes + s > L.
OverReadLimit ==
  /\ ret.op = "AddEntry" /\ ret.kind = "file"
  /\ a.ReadLimit > 0 /\ ret.before + ret.len > a.ReadLimit

\* C2 as stated: in that case AddEntry returns ReadLimitExceeded, copies no
\* payload byte and leaves readbytes unchanged.
C2_Original ==
  OverReadLimit => (ret.err = "ReadLimitExceeded" /\ ret.n = 0 /\ a.readbytes = ret.before)

\* C2 as amended: in that case AddEntry copies no payload byte, leaves
\* readbytes unchanged and returns an error, which is ReadLimitExceeded
\* unless the setup, the header write or the opening of the file failed first.
C2_ReadLimit ==
  OverReadLimit =>
    /\ ret.err \in {"ReadLimitExceeded", "setup failed", "writing header", "panic", "open"}
    /\ ret.n = 0
    /\ a.readbytes = ret.before

C2_Witness ==
  OverReadLimit /\ ret.err = "ReadLimitExceeded" /\ ret.before > 0 /\ ret.before <= a.ReadLimit

\* The layers the handle holds.
Held == {a.tarW, a.pgzipW, a.pgzipR} \ {0}

C6_SetupOnce ==
  [][ /\ Cardinality({ i \in DOMAIN layers' : layers'[i].kind \in {"tarW", "tarR"} }) <= 1
      /\ (a.setup /\ ops' # ops /\ ret'.op \in {"SetupWriter", "SetupReader"}) =>
           /\ ret'.err = "nil"
           /\ a' = a /\ layers' = layers /\ lw' = lw /\ tw' = tw
           /\ sink' = sink /\ reads' = reads /\ archive' = archive ]_vars

C6_Witness ==
  /\ ret.op \in {"SetupWriter", "SetupReader"} /\ ret.before = 1 /\ ret.err = "nil"
  /\ a.WriteLimit > 0 /\ a.pgzipW # 0 /\ a.tarW # 0

\* C7: once the handle is closed, an AddEntry, ArchivePath or Extract call
\* writes nothing to the sink and reads nothing from the source.
C7_NoIOAfterClose ==
  [][ (a.closed /\ ret'.op \in {"AddEntry", "ArchivePath", "Extract"}) =>
        (sink'.bytes = sink.bytes /\ reads' = reads) ]_vars

\* The location an entry name stands for under the destination /d.
Target(name) == Abs(Join(cleanPath(P(TRUE, <<"d">>)), cleanPath(name)))

\* What reading the object at k yields: the payload of the file it is or
\* points at.
Content(f, k) == IF Exists(f, Resolve(f, k)) THEN f[Resolve(f, k)].data ELSE <<"unreadable">>

\* C3: after ArchivePath on a root that does not hold the destination, Close,
\* and Extract of the stream into the empty /d without errors, /d holds
\* exactly one object per entry, and each has the type, the permission bits
\* and the contents of a source object that gave the entry.
C3_RoundTrip ==
  (/\ feed = "archive" /\ ret.op = "Extract" /\ ret.err = "nil" /\ opts.Errors = <<>>
   /\ \A i \in DOMAIN archive : ~archive[i].Name.abs) =>
    /\ { q \in DOMAIN fs : IsPrefix(<<"d">>, q) /\ q # <<"d">> } = { Target(archive[i].Name) : i \in DOMAIN archive }
    /\ \A i \in DOMAIN archive :
         \E s \in Sources(fs) :
           /\ FileInfoHeader(archive[i].Name, fs[s]) = [archive[i] EXCEPT !.data = <<>>]
           /\ Exists(fs, Target(archive[i].Name))
           /\ fs[Target(archive[i].Name)].kind = fs[s].kind
           /\ fs[s].kind # "symlink" => fs[Target(archive[i].Name)].perm = fs[s].perm
           /\ Content(fs, Target(archive[i].Name)) = Content(fs, s)

\* C4: every location Extract has created, removed or modified lies in the
\* destination /d.
C4_Contained == \A q \in touched : IsPrefix(<<"d">>, q)

\* C8: an entry whose reconstruction fails has its error appended to
\* opts.Errors; under fail-fast Extract returns that error at once, otherwise
\* it goes on with the loop.
C8_FailurePolicy ==
  [][ (x.pc = "loop" /\ tr'.n = tr.n + 1 /\ x'.err # "nil") =>
        /\ opts'.Errors = Append(opts.Errors, x'.err)
        /\ IF opts.FailOnError
             THEN ret'.op = "Extract" /\ ret'.err = x'.err /\ x'.pc = "idle"
             ELSE x'.pc = "loop" ]_vars

\* C9: with overwrite off and no interactive mode, an entry whose path exists
\* leaves the filesystem as it was and the loop goes on; an entry whose path
\* does not exist is reconstructed.
C9_SkipExisting ==
  [][ (x.pc = "loop" /\ tr'.n = tr.n + 1 /\ ~x.overwrite /\ ~x.interactive) =>
        IF Exists(fs, Target(x'.h.Name))
          THEN fs' = fs /\ x'.pc = "loop"
          ELSE (x'.h.Typeflag \in {"TypeReg", "TypeDir"} /\ x'.err = "nil") => Exists(fs', Target(x'.h.Name)) ]_vars

\* C10: when the key read at a conflict prompt is 'q', Extract returns
\* ExtractionAborted without changing the filesystem, the loop is left and
\* the handle is closed.
C10_Quit ==
  [][ (x.pc = "loop" /\ tr'.n = tr.n + 1 /\ x'.r = "q") =>
        /\ ret'.op = "Extract" /\ ret'.err = "ExtractionAborted"
        /\ fs' = fs /\ opts' = opts
        /\ x'.pc = "idle"
        /\ a'.closed ]_vars

C10_Witness ==
  /\ ret.op = "Extract" /\ ret.err = "ExtractionAborted" /\ x.r = "q"
  /\ Exists(fs, Target(x.h.Name))
  /\ a.closed

\* C11: once 'a' was read at a prompt of this call, an entry whose path
\* exists is reconstructed without a prompt; once 'N' was read, such an entry
\* is skipped without a prompt, nothing changes and the loop goes on.
C11_AllNone ==
  [][ (x.pc = "loop" /\ tr'.n = tr.n + 1 /\ Exists(fs, Target(x'.h.Name))) =>
        /\ "a" \in x.keys => (x'.r = "" /\ x'.did = "extracted")
        /\ "N" \in x.keys => (x'.r = "" /\ x'.did = "skipped" /\ fs' = fs /\ x'.pc = "loop") ]_vars

\* C12: whenever Extract returns after it has set up the read side, the
\* handle is closed and the gzip reader, if one was built, has been closed.
C12_ClosedOnReturn ==
  [][ (x.pc = "loop" /\ x'.pc # "loop") =>
        /\ a'.closed
        /\ a'.pgzipR # 0 => layers'[a'.pgzipR].closes >= 1 ]_vars

\* C13: a step of ArchivePath at which the tar writer fails or an entry is
\* left short of payload returns an error; and the step at which ArchivePath
\* returns an error ends the call with every pending object and root
\* dropped, having added to the archive the failing object's entry at most.
C13_FailStops ==
  [][ (ap.pc \in {"root", "walk"}) =>
        /\ (tw' # tw /\ (tw'.err # "nil" \/ tw'.rem > 0)) =>
             (ap'.pc = "idle" /\ ret'.op = "ArchivePath" /\ ret'.err \notin {"nil", "running"})
        /\ (ret'.err \notin {"nil", "running"}) =>
             /\ ap'.pc = "idle" /\ ap'.queue = <<>> /\ ap'.roots = <<>>
             /\ Len(archive') <= Len(archive) + 1
             /\ SubSeq(archive', 1, Len(archive)) = archive ]_vars

\* ArchivePath has returned the error of the third object of a tree of four,
\* after two entries.
C13_Witness ==
  /\ ret.op = "ArchivePath" /\ ret.err = "open" /\ ap.pc = "idle"
  /\ Len(archive) = 3 /\ tw.rem > 0
  /\ fs = FS(Roots \cup Tree2)

\* The last AddEntry copied a file that yielded fewer bytes than its recorded
\* size: the copy ran, the tar writer took every byte it was given, and the
\* entry is short.
ShortFile ==
  /\ ret.op = "AddEntry" /\ ret.kind = "file"
  /\ ret.err \notin {"setup failed", "archive type not implemented", "writing header", "panic",
                     "open", "ReadLimitExceeded"}
  /\ ret.n < ret.len /\ tw.err = "nil"

\* C14: AddEntry on a file that yields fewer bytes than its recorded size
\* does not return success, and what it returns is not the "adding file"
\* error that it returns when the copy fails.
C14_ShortRead ==
  ShortFile => ret.err \notin {"nil", "adding file"}

\* C15: a Write whose buffer would push the cumulative count past the limit
\* reports 0 bytes and leaves the sink and the cumulative count as they were.
C15_RejectedWrite ==
  [][ (ret'.op = "Write" /\ ret'.before = lw.written /\ ret'.before + ret'.len > lw.Limit) =>
        /\ ret'.n = 0
        /\ sink' = sink
        /\ lw'.written = lw.written ]_vars

\* A Write was rejected after the sink had taken bytes of earlier Writes.
C15_Witness ==
  /\ ret.op = "Write" /\ ret.err = "WriteLimitExceeded" /\ ret.n = 0
  /\ ret.before > 0 /\ sink.calls >= 1 /\ sink.bytes = lw.written

\* C16: a SetupWriter or SetupReader call on a handle whose type or
\* compressor is not supported returns an error, leaves the handle not
\* ready, and constructs no compressor and no container layer.
C16_SetupRejects ==
  [][ (/\ ops' # ops /\ ret'.op \in {"SetupWriter", "SetupReader"}
       /\ ~a.setup
       /\ (a.Type # TypeTar \/ a.Compressor \notin {CompressorNone, CompressorGzip})) =>
        /\ ret'.err # "nil"
        /\ ~a'.setup
        /\ a'.pgzipW = a.pgzipW /\ a'.pgzipR = a.pgzipR
        /\ a'.tarW = a.tarW /\ a'.tarR = a.tarR ]_vars

\* C17: when the close of the tar writer and the close of the gzip writer
\* both fail during Close, the text of the one error Close returns holds the
\* message of each of the two failures.
C17_BothReported ==
  (/\ ret.op = "Close"
   /\ \E i, j \in DOMAIN ret.errlist : ret.errlist[i] = "close tar" /\ ret.errlist[j] = "close gzip") =>
    /\ ret.err = "close failed"
    /\ \E i, j \in DOMAIN ret.text : i < j /\ ret.text[i] = "close tar" /\ ret.text[j] = "close gzip"

\* Close has met a failing tar writer and a failing gzip writer.
C17_Witness ==
  /\ ret.op = "Close" /\ ret.err = "close failed"
  /\ ret.errlist = <<"close tar", "close gzip">>
  /\ ret.text = <<"close tar", ", ", "close gzip">>
  /\ a.tarW # 0 /\ a.pgzipW # 0 /\ a.closed

C19_RelativeNames ==
  [][ (ap.pc = "walk" /\ Len(archive') = Len(archive) + 1) =>
        LET name == archive'[Len(archive')].Name
        IN ~name.abs /\ name.segs # <<>> /\ name.segs[1] \notin {".", ".."} ]_vars

\* C20: an Extract call whose destination does not exist or is not a
\* directory returns an error and leaves the source unread, the handle and
\* its layers as they were, and the filesystem untouched.
C20_BadDestination ==
  [][ (/\ x.pc = "idle" /\ x'.calls = x.calls + 1
       /\ LET k == Resolve(fs, Abs(cleanPath(P(TRUE, <<"d">>))))
          IN ~Exists(fs, k) \/ ~IsDir(fs, k)) =>
        /\ ret'.op = "Extract"
        /\ ret'.err \in {"destination directory does not exist", "destination is not a directory"}
        /\ x'.pc = "idle"
        /\ reads' = reads /\ a' = a /\ layers' = layers
        /\ fs' = fs /\ touched' = touched ]_vars

\* Extract on a gzip handle has refused a destination that is a file.
C20_Witness ==
  /\ ret.op = "Extract" /\ ret.err = "destination is not a directory"
  /\ x.calls = 1 /\ x.pc = "idle"
  /\ a.Compressor = CompressorGzip /\ ~a.setup /\ reads = 0 /\ layers = <<>>
  /\ Exists(fs, <<"d">>) /\ ~IsDir(fs, <<"d">>)

C22_CountsAccepted ==
  /\ lw.written = sink.bytes
  /\ ret.op = "Write" => lw.written = ret.before + ret.n

\* The sink took a part of the buffer and returned an error with it, after
\* earlier Writes.
C22_Witness ==
  /\ ret.op = "Write" /\ ret.err = "io"
  /\ ret.n > 0 /\ ret.n < ret.len /\ ret.before > 0
  /\ lw.written = ret.before + ret.n

\* C23: a first Close on a handle with a tar writer and a gzip writer closes
\* the tar writer first and the gzip writer after it, also when the close of
\* the tar writer has failed.
C23_ContainerFirst ==
  (ret.op = "Close" /\ ret.before = 0 /\ a.tarW # 0 /\ a.pgzipW # 0) =>
    /\ Len(ret.order) >= 2
    /\ ret.order[1] = "close tar" /\ ret.order[2] = "close gzip"
    /\ layers[a.tarW].closes = 1 /\ layers[a.pgzipW].closes = 1

\* The close of the tar writer failed and the gzip writer was closed after it
\* without a failure.
C23_Witness ==
  /\ ret.op = "Close" /\ ret.before = 0 /\ a.tarW # 0 /\ a.pgzipW # 0
  /\ ret.errlist = <<"close tar">>
  /\ ret.order = <<"close tar", "close gzip">>
  /\ layers[a.pgzipW].closes = 1

\* C24: when the step for an entry leaves its destination path carrying the
\* entry's timestamp, the entry was reconstructed without an error and is
\* not a symlink entry.
C24_ApplyAfterSuccess ==
  [][ (x.pc = "loop" /\ tr'.n = tr.n + 1) =>
        LET k == Target(x'.h.Name)
        IN (/\ Exists(fs', k) /\ fs'[k].mtime = x'.h.ModTime
            /\ (Exists(fs, k) => fs[k].mtime # x'.h.ModTime)) =>
             (x'.did = "extracted" /\ x'.err = "nil" /\ x'.h.Typeflag # "TypeSymlink") ]_vars

\* C25: on the POSIX adapter the symbolic link made for a symlink entry holds
\* the link text recorded in the entry.
C25_RawLinkText ==
  [][ (/\ x.pc = "loop" /\ tr'.n = tr.n + 1 /\ platform = "posix"
       /\ x'.h.Typeflag = "TypeSymlink" /\ x'.did = "extracted" /\ x'.err = "nil") =>
        LET k == Target(x'.h.Name)
        IN /\ Exists(fs', k) /\ fs'[k].kind = "symlink"
           /\ \E e \in EntrySet : /\ e.Typeflag = "TypeSymlink" /\ cleanPath(e.Name) = x'.h.Name
                                  /\ fs'[k].link = e.Linkname ]_vars

\* C26: on the link-limited adapter the step for a character or block device
\* entry leaves nothing at the entry's path, adds nothing to the error list
\* and does not end the call.
C26_DeviceNoOp ==
  [][ (/\ x.pc = "loop" /\ tr'.n = tr.n + 1 /\ platform = "windows"
       /\ x'.h.Typeflag \in {"TypeChar", "TypeBlock"} /\ x'.did = "extracted") =>
        /\ ~Exists(fs', Target(x'.h.Name))
        /\ opts'.Errors = opts.Errors
        /\ x'.pc = "loop" ]_vars

\* C27: a step of Extract changes no field of the options other than the
\* error list, also after the keys 'a' and 'N', and it appends to the error
\* list only when fail-fast is off.
C27_OptionsKept ==
  [][ (x.pc = "loop") =>
        /\ [opts' EXCEPT !.Errors = <<>>] = [opts EXCEPT !.Errors = <<>>]
        /\ opts'.Errors # opts.Errors => ~opts.FailOnError ]_vars

\* C28: with a read limit L > 0 that the bytes read so far respect, an
\* AddEntry call, successful or failed, leaves the count of bytes read at
\* most L; the count starts at 0.
C28_ReadBound ==
  [][ (/\ ops' # ops /\ ret'.op = "AddEntry"
       /\ a.ReadLimit > 0 /\ a.readbytes <= a.ReadLimit) =>
        /\ a'.ReadLimit = a.ReadLimit
        /\ a'.readbytes <= a.ReadLimit
        /\ a'.readbytes >= a.readbytes ]_vars

\* A second file was added and brought the bytes read to the limit exactly.
C28_Witness ==
  /\ ret.op = "AddEntry" /\ ret.err = "nil" /\ ret.kind = "file"
  /\ a.ReadLimit > 0 /\ ret.before > 0 /\ ret.len > 0
  /\ a.readbytes = a.ReadLimit /\ a.readbytes = ret.before + ret.len

\* C29: during one Extract call with overwrite enabled, the object that
\* Extract created for the entry before is still there after the next
\* entry, of a different name, has been processed.
C29_EarlierKept ==
  [][ (/\ x.pc = "loop" /\ tr'.n = tr.n + 1 /\ x'.overwrite
       /\ x.h # NoEntry /\ x.did = "extracted" /\ x.err = "nil"
       /\ x'.h.Name # x.h.Name
       /\ Exists(fs, Abs(Join(x.base, x.h.Name)))) =>
        Exists(fs', Abs(Join(x.base, x.h.Name))) ]_vars

\* C30: with a nil Stderr in the options, an entry whose path exists and
\* that is skipped with a message (no overwrite and no prompt, or a prompt
\* whose read failed) changes nothing and the loop goes on to the next entry.
C30_NilSinkSafe ==
  [][ (/\ x.pc = "loop" /\ tr'.n = tr.n + 1 /\ opts.StderrNil
       /\ Exists(fs, Target(x'.h.Name)) /\ ~x.overwrite
       /\ x'.r \in {"", "err"}) =>
        /\ x'.pc = "loop" /\ x'.did = "skipped"
        /\ fs' = fs ]_vars

====
